---- MODULE Spec2Model ----
(***************************************************************************)
(* Model of scraper.py: one run of main() is connect -> ensure_db ->       *)
(* get_html -> parse_posts -> upsert_posts -> print/close, and the posts   *)
(* table lives on across runs.                                             *)
(*                                                                         *)
(* Optional values (Python None) are sequences: <<>> is None, <<x>> is x.  *)
(* Text is a sequence of one-character strings.                            *)
(***************************************************************************)
EXTENDS Integers, Sequences, FiniteSets, TLC

\* ---------------------------------------------------------------- bounds
MaxBatch == 2
MaxRuns == 2
MaxElems == 3

\* ------------------------------------------------------- optional values
None == <<>>
Some(x) == <<x>>
IsNone(o) == o = <<>>
Get(o) == o[1]

SeqsUpTo(S, n) == UNION {[1..k -> S] : k \in 0..n}

RECURSIVE Concat(_)
Concat(ss) == IF ss = <<>> THEN <<>> ELSE Head(ss) \o Concat(Tail(ss))

\* ------------------------------------------------------------------ text
\* str.strip(): drop leading and trailing whitespace.
IsSpace(ch) == ch = " "

RECURSIVE LStrip(_)
LStrip(s) == IF s # <<>> /\ IsSpace(Head(s)) THEN LStrip(Tail(s)) ELSE s

RECURSIVE RStrip(_)
RStrip(s) ==
  IF s # <<>> /\ IsSpace(s[Len(s)]) THEN RStrip(SubSeq(s, 1, Len(s) - 1)) ELSE s

Strip(s) == RStrip(LStrip(s))

\* Tag.get_text(strip=True): every string of the element is stripped, the
\* empty ones are skipped and the rest are joined with "".
get_text_strip(strings) == Concat([k \in 1..Len(strings) |-> Strip(strings[k])])

\* Tag.get_text(): the strings joined as they are.
get_text(strings) == Concat(strings)

\* str.isdigit() is true of the decimal digits and of digit characters such
\* as the superscript two, which int() does not accept.
DecimalChars == {"0", "1", "2", "3", "4", "5", "6", "7", "8", "9"}
IsDecimal(ch) == ch \in DecimalChars
isdigit(ch) == IsDecimal(ch) \/ ch = "^2"

DigitVal(ch) ==
  CASE ch = "0" -> 0 [] ch = "1" -> 1 [] ch = "2" -> 2 [] ch = "3" -> 3
    [] ch = "4" -> 4 [] ch = "5" -> 5 [] ch = "6" -> 6 [] ch = "7" -> 7
    [] ch = "8" -> 8 [] ch = "9" -> 9

RECURSIVE DecValue(_)
DecValue(s) ==
  IF s = <<>> THEN 0
  ELSE 10 * DecValue(SubSeq(s, 1, Len(s) - 1)) + DigitVal(s[Len(s)])

AllDecimal(s) == \A k \in 1..Len(s) : IsDecimal(s[k])

\* int(text): None stands for ValueError.  An optional sign, then one or more
\* decimal digits, with surrounding whitespace allowed.
int(text) ==
  LET s == Strip(text)
      signed == s # <<>> /\ Head(s) \in {"-", "+"}
      body == IF signed THEN Tail(s) ELSE s
  IN IF body = <<>> \/ ~AllDecimal(body) THEN None
     ELSE Some(IF signed /\ Head(s) = "-" THEN 0 - DecValue(body) ELSE DecValue(body))

RECURSIVE FilterDigits(_)
FilterDigits(s) ==
  IF s = <<>> THEN <<>>
  ELSE (IF isdigit(Head(s)) THEN <<Head(s)>> ELSE <<>>) \o FilterDigits(Tail(s))

\* ------------------------------------------------------------------ urls
\* A url is a sequence of tokens; "item?id=" is the relative item prefix.
ItemPrefix == "item?id="
HN_URL == "https://news.ycombinator.com/"
startswith_item(url) == url # <<>> /\ Head(url) = ItemPrefix

\* -------------------------------------------------------------- markup
\* A document is the sequence of sibling elements of the listing table.
\* An element is a <tr> (an item row when athing) or another tag.
Anchor(strings, href) == [strings |-> strings, href |-> href]
Subtext(hnuser, score, age) == [hnuser |-> hnuser, score |-> score, age |-> age]
Tr(athing, id, titleline, storylink, subtext) ==
  [name |-> "tr", athing |-> athing, id |-> id, titleline |-> titleline,
   storylink |-> storylink, subtext |-> subtext]
OtherTag == [name |-> "div", athing |-> FALSE, id |-> None, titleline |-> None,
             storylink |-> None, subtext |-> None]

\* row.find_next_sibling() repeated until a <tr>: 0 when there is none.
RECURSIVE NextTr(_, _)
NextTr(doc, k) ==
  IF k + 1 > Len(doc) THEN 0
  ELSE IF doc[k + 1].name = "tr" THEN k + 1 ELSE NextTr(doc, k + 1)

\* Mutant of Discarded: the test is post_id < 0, so id 0 is kept.
DiscardedKeepsZero(post_id, title) ==
  IsNone(post_id) \/ Get(post_id) < 0 \/ title = <<>>

\* if not isinstance(post_id, int) or post_id <= 0 or not title: continue
Discarded(post_id, title) ==
  IsNone(post_id) \/ Get(post_id) <= 0 \/ title = <<>>

\* One iteration of the loop of parse_posts for the item row doc[k]:
\* [raise |-> TRUE] when int(digits) raises, else the record and whether it
\* is kept.
ParseRow(doc, k) ==
  LET row == doc[k]
      id_parsed == IF IsNone(row.id) THEN None ELSE int(Get(row.id))
      anchor == IF ~IsNone(row.titleline) THEN row.titleline ELSE row.storylink
      title == IF IsNone(anchor) THEN <<>> ELSE get_text_strip(Get(anchor).strings)
      href == IF IsNone(anchor) THEN <<>>
              ELSE IF IsNone(Get(anchor).href) THEN <<>> ELSE Get(Get(anchor).href)
      url == IF startswith_item(href) THEN <<HN_URL>> \o href ELSE href
      j == NextTr(doc, k)
      subtext_td == IF j = 0 THEN None ELSE doc[j].subtext
      st == Get(subtext_td)
      user == IF IsNone(subtext_td) \/ IsNone(st.hnuser) THEN None
              ELSE Some(get_text_strip(Get(st.hnuser)))
      hasScore == ~IsNone(subtext_td) /\ ~IsNone(st.score)
      digits == IF hasScore THEN FilterDigits(get_text(Get(st.score))) ELSE <<>>
      raises == digits # <<>> /\ ~AllDecimal(digits)
      points == IF digits = <<>> THEN 0 ELSE DecValue(digits)
      time_posted == IF IsNone(subtext_td) \/ IsNone(st.age) THEN None
                     ELSE Get(st.age)
      keep == ~Discarded(id_parsed, title)
  IN IF raises THEN [raise |-> TRUE]
     ELSE [raise |-> FALSE, keep |-> keep,
           post |-> [id |-> IF IsNone(id_parsed) THEN 0 ELSE Get(id_parsed),
                     title |-> title, url |-> url, user |-> user,
                     points |-> points, time_posted |-> time_posted]]

\* parse_posts(html): <<"raise">> when a row raises, else <<"ok", posts>>.
RECURSIVE ParseFrom(_, _, _)
ParseFrom(doc, k, acc) ==
  IF k > Len(doc) THEN <<"ok", acc>>
  ELSE IF ~(doc[k].name = "tr" /\ doc[k].athing) THEN ParseFrom(doc, k + 1, acc)
  ELSE LET r == ParseRow(doc, k)
       IN IF r.raise THEN <<"raise">>
          ELSE ParseFrom(doc, k + 1, IF r.keep THEN Append(acc, r.post) ELSE acc)

parse_posts(doc) == ParseFrom(doc, 1, <<>>)

\* ------------------------------------------------------------ the store
\* A stored row is a post plus scraped_at; the table is a set of rows.
isoformat(t) == <<"utc", t>>

InsertedRow(row, now) ==
  [id |-> row.id, title |-> row.title, url |-> row.url, user |-> row.user,
   points |-> row.points, time_posted |-> row.time_posted, scraped_at |-> now]

\* Mutant of COALESCE: the excluded value is taken even when it is NULL.
CoalesceTakesNew(a, b) == a

COALESCE(a, b) == IF ~IsNone(a) THEN a ELSE b

\* Mutant of ConflictUpdate: a NULL user keeps the stored user.
ConflictUpdateKeepsUser(old, row, now) ==
  [id |-> old.id, title |-> row.title, url |-> row.url,
   user |-> IF ~IsNone(row.user) THEN row.user ELSE old.user,
   points |-> row.points,
   time_posted |-> IF ~IsNone(row.time_posted) THEN row.time_posted ELSE old.time_posted,
   scraped_at |-> now]

\* ON CONFLICT(id) DO UPDATE SET ...: old is the stored row, row the excluded.
ConflictUpdate(old, row, now) ==
  [id |-> old.id, title |-> row.title, url |-> row.url, user |-> row.user,
   points |-> row.points,
   time_posted |-> COALESCE(row.time_posted, old.time_posted),
   scraped_at |-> now]

\* Mutant of Upsert: a plain INSERT into a table without the key.
UpsertInsertOnly(table, row, now) == table \cup {InsertedRow(row, now)}

\* One execution of the INSERT ... ON CONFLICT statement on a table.
Upsert(table, row, now) ==
  IF \E old \in table : old.id = row.id
  THEN {IF old.id = row.id THEN ConflictUpdate(old, row, now) ELSE old : old \in table}
  ELSE table \cup {InsertedRow(row, now)}

RowsOf(table, id) == {r \in table : r.id = id}
IdsOf(table) == {r.id : r \in table}

\* --------------------------------------------------------------- inputs
Ids == {1, 2}
IdText(id) == IF id = 1 THEN <<"1">> ELSE IF id = 2 THEN <<"2">> ELSE <<"3">>
Variants == {"full", "alt", "bare", "noid", "odd"}
Items == (Ids \X {"full", "alt", "bare"}) \cup {<<1, "noid">>, <<1, "odd">>}

\* The markup of one listed item: its item row and, unless bare, the row
\* that carries the subtext.
ItemMarkup(item) ==
  LET id == item[1]
      v == item[2]
  IN CASE v = "full" ->
            <<Tr(TRUE, Some(IdText(id)),
                 Some(Anchor(<<<<"a">>>>, Some(<<"https://example.com/">>))), None, None),
              Tr(FALSE, None, None, None,
                 Some(Subtext(Some(<<<<"u">>>>), Some(<<<<"5", " ", "p">>>>),
                              Some(Some("t1")))))>>
       [] v = "alt" ->
            <<Tr(TRUE, Some(IdText(id)),
                 Some(Anchor(<<<<"a">>>>, Some(<<"https://example.com/">>))), None, None),
              Tr(FALSE, None, None, None,
                 Some(Subtext(Some(<<<<"u">>>>), Some(<<<<"3", " ", "p">>>>),
                              Some(Some("t2")))))>>
       [] v = "bare" ->
            <<Tr(TRUE, Some(IdText(id)), None,
                 Some(Anchor(<<<<"b">>>>, Some(<<ItemPrefix>> \o IdText(id)))), None)>>
       [] v = "odd" ->
            <<Tr(TRUE, Some(IdText(id)),
                 Some(Anchor(<<<<"a">>>>, Some(<<"https://example.com/">>))), None, None),
              Tr(FALSE, None, None, None,
                 Some(Subtext(None, Some(<<<<"1", "^2">>>>), None)))>>
       [] v = "noid" ->
            <<Tr(TRUE, None,
                 Some(Anchor(<<<<"a">>>>, Some(<<"https://example.com/">>))), None, None)>>

Page(items) == Concat([k \in 1..Len(items) |-> ItemMarkup(items[k])])

RunDocs == {Page(items) : items \in SeqsUpTo(Items, MaxBatch)}
SnapshotPage == Page(<<<<1, "alt">>, <<1, "noid">>>>)
FetchErrors == {"network", "timeout", "status", "encoding"}
Steps == {"connect", "ensure_db", "get_html", "parse_posts", "upsert_posts"}

\* ---------------------------------------------------------------- state
VARIABLES
  pc,          \* position of main: connect, ensure_db, get_html, parse,
               \* upsert, execute, print, done, killed
  conn,        \* "none", "open" or "closed"
  opens,       \* sqlite3.connect calls that returned a connection, this run
  tableExists, \* the posts table has been created
  db,          \* committed rows of posts, what any reader sees
  view,        \* rows as the connection sees them (db plus its open transaction)
  inTxn,       \* the connection has an open transaction
  snapshot,    \* dummy.html: None when the file is missing, else its text
  html,        \* markup returned by get_html
  posts,       \* records returned by parse_posts
  i,           \* statements executed by upsert_posts in this run
  now_iso,     \* now_iso of upsert_posts
  exitCode,    \* None until main returns, then 0 or 1
  fetches,     \* requests.get calls of this run
  snapReads,   \* reads of dummy.html of this run
  fetchResult, \* "none", "ok" or the error that failed the fetch
  stderr,      \* diagnostics written in this run
  stdout,      \* None or the count printed in the summary
  completed,   \* steps of main that completed in this run
  dbAtStart,   \* db when this run began
  upserted,    \* ids written by a committed batch, in any run
  runs         \* runs started

vars == <<pc, conn, opens, tableExists, db, view, inTxn, snapshot, html, posts,
          i, now_iso, exitCode, fetches, snapReads, fetchResult, stderr, stdout,
          completed, dbAtStart, upserted, runs>>

\* datetime.now(timezone.utc): a clock that advances with every run and
\* every executed statement.
utcnow == runs * (MaxBatch + 2) + i

RunReset ==
  /\ pc = "connect" /\ conn = "none" /\ opens = 0
  /\ inTxn = FALSE /\ html = <<>> /\ posts = <<>> /\ i = 0 /\ now_iso = None
  /\ exitCode = None /\ fetches = 0 /\ snapReads = 0 /\ fetchResult = "none"
  /\ stderr = {} /\ stdout = None /\ completed = {}

Init ==
  /\ RunReset
  /\ tableExists = FALSE /\ db = {} /\ view = {} /\ dbAtStart = {}
  /\ upserted = {} /\ runs = 1
  /\ snapshot \in {None, Some(SnapshotPage)}

\* Mutant of Except: the handler returns 0.
ExceptReturns0 ==
  /\ pc' = "done"
  /\ exitCode' = Some(0)
  /\ view' = db
  /\ inTxn' = FALSE

\* main's handler: except Exception -> write the diagnostic, return 1.
\* The with-block of upsert_posts has rolled back before it is reached.
Except ==
  /\ pc' = "done"
  /\ exitCode' = Some(1)
  /\ view' = db
  /\ inTxn' = FALSE

\* conn = sqlite3.connect(DB_PATH)
ConnectOk ==
  /\ pc = "connect"
  /\ conn' = "open" /\ opens' = opens + 1
  /\ completed' = completed \cup {"connect"}
  /\ pc' = "ensure_db"
  /\ UNCHANGED <<tableExists, db, view, inTxn, snapshot, html, posts, i, now_iso,
                 exitCode, fetches, snapReads, fetchResult, stderr, stdout,
                 dbAtStart, upserted, runs>>

ConnectFail ==
  /\ pc = "connect"
  /\ Except
  /\ stderr' = stderr \cup {"Scrape failed"}
  /\ UNCHANGED <<conn, opens, tableExists, db, snapshot, html, posts, i, now_iso,
                 fetches, snapReads, fetchResult, stdout, completed,
                 dbAtStart, upserted, runs>>

\* Mutant of ensure_db_rows: the table is dropped and created again.
ensure_db_recreates == {}

\* ensure_db(conn): CREATE TABLE IF NOT EXISTS keeps an existing table.
ensure_db_rows == IF tableExists THEN db ELSE {}

EnsureDbOk ==
  /\ pc = "ensure_db"
  /\ tableExists' = TRUE
  /\ db' = ensure_db_rows /\ view' = ensure_db_rows
  /\ completed' = completed \cup {"ensure_db"}
  /\ pc' = "get_html"
  /\ UNCHANGED <<conn, opens, inTxn, snapshot, html, posts, i, now_iso, exitCode,
                 fetches, snapReads, fetchResult, stderr, stdout, dbAtStart,
                 upserted, runs>>

EnsureDbFail ==
  /\ pc = "ensure_db"
  /\ Except
  /\ stderr' = stderr \cup {"Scrape failed"}
  /\ UNCHANGED <<conn, opens, tableExists, db, snapshot, html, posts, i, now_iso,
                 fetches, snapReads, fetchResult, stdout, completed,
                 dbAtStart, upserted, runs>>

\* get_html(): the request succeeds and resp.text is returned.
FetchOk ==
  /\ pc = "get_html"
  /\ \E doc \in RunDocs : html' = doc
  /\ fetches' = fetches + 1
  /\ fetchResult' = "ok"
  /\ completed' = completed \cup {"get_html"}
  /\ pc' = "parse"
  /\ UNCHANGED <<conn, opens, tableExists, db, view, inTxn, snapshot, posts, i,
                 now_iso, exitCode, snapReads, stderr, stdout, dbAtStart,
                 upserted, runs>>

\* DUMMY_HTML.read_text(encoding="utf-8") in the except branch of get_html.
read_text == snapshot

\* Mutant of FetchFailFallback: the request is tried again and its text is
\* returned, dummy.html is not read.
FetchFailRetries ==
  /\ pc = "get_html"
  /\ \E e \in FetchErrors : fetchResult' = e
  /\ fetches' = fetches + 2
  /\ stderr' = stderr \cup {"Fetch failed"}
  /\ \E doc \in RunDocs : html' = doc
  /\ completed' = completed \cup {"get_html"}
  /\ pc' = "parse"
  /\ UNCHANGED <<conn, opens, tableExists, db, view, inTxn, snapshot, posts, i,
                 now_iso, exitCode, snapReads, stdout, dbAtStart, upserted, runs>>

\* get_html(): the request raises, dummy.html is there and is returned.
FetchFailFallback ==
  /\ pc = "get_html"
  /\ \E e \in FetchErrors : fetchResult' = e
  /\ fetches' = fetches + 1
  /\ stderr' = stderr \cup {"Fetch failed"}
  /\ snapReads' = snapReads + 1
  /\ ~IsNone(read_text)
  /\ html' = Get(read_text)
  /\ completed' = completed \cup {"get_html"}
  /\ pc' = "parse"
  /\ UNCHANGED <<conn, opens, tableExists, db, view, inTxn, snapshot, posts, i,
                 now_iso, exitCode, stdout, dbAtStart, upserted, runs>>

\* get_html(): the request raises and reading dummy.html raises too.
FetchFailNoSnapshot ==
  /\ pc = "get_html"
  /\ \E e \in FetchErrors : fetchResult' = e
  /\ fetches' = fetches + 1
  /\ snapReads' = snapReads + 1
  /\ IsNone(read_text)
  /\ Except
  /\ stderr' = stderr \cup {"Fetch failed", "Scrape failed"}
  /\ UNCHANGED <<conn, opens, tableExists, db, snapshot, html, posts, i, now_iso,
                 stdout, completed, dbAtStart, upserted, runs>>

\* Mutant of ParseOk: main returns 1 after the warning when posts is empty.
ParseOkAbortsOnEmpty ==
  /\ pc = "parse"
  /\ parse_posts(html)[1] = "ok"
  /\ posts' = parse_posts(html)[2]
  /\ stderr' = IF posts' = <<>> THEN stderr \cup {"No posts parsed"} ELSE stderr
  /\ completed' = completed \cup {"parse_posts"}
  /\ pc' = IF posts' = <<>> THEN "done" ELSE "upsert"
  /\ exitCode' = IF posts' = <<>> THEN Some(1) ELSE exitCode
  /\ UNCHANGED <<conn, opens, tableExists, db, view, inTxn, snapshot, html, i,
                 now_iso, fetches, snapReads, fetchResult, stdout,
                 dbAtStart, upserted, runs>>

\* posts = parse_posts(html), then the warning of main when posts is empty.
ParseOk ==
  /\ pc = "parse"
  /\ parse_posts(html)[1] = "ok"
  /\ posts' = parse_posts(html)[2]
  /\ stderr' = IF posts' = <<>> THEN stderr \cup {"No posts parsed"} ELSE stderr
  /\ completed' = completed \cup {"parse_posts"}
  /\ pc' = "upsert"
  /\ UNCHANGED <<conn, opens, tableExists, db, view, inTxn, snapshot, html, i,
                 now_iso, exitCode, fetches, snapReads, fetchResult, stdout,
                 dbAtStart, upserted, runs>>

\* parse_posts(html) raises ValueError at int(digits).
ParseRaise ==
  /\ pc = "parse"
  /\ parse_posts(html)[1] = "raise"
  /\ Except
  /\ stderr' = stderr \cup {"Scrape failed"}
  /\ UNCHANGED <<conn, opens, tableExists, db, snapshot, html, posts, i, now_iso,
                 fetches, snapReads, fetchResult, stdout, completed,
                 dbAtStart, upserted, runs>>

\* upsert_posts: now_iso is taken once, before the with-block.
UpsertBegin ==
  /\ pc = "upsert"
  /\ now_iso' = isoformat(utcnow)
  /\ pc' = "execute"
  /\ UNCHANGED <<conn, opens, tableExists, db, view, inTxn, snapshot, html, posts,
                 i, exitCode, fetches, snapReads, fetchResult, stderr, stdout,
                 completed, dbAtStart, upserted, runs>>

\* The scraped_at bound to the statement for the next row.
scraped_at_param == now_iso

\* conn.execute(sql, {**row, "scraped_at": now_iso}) for the next row; the
\* first one opens the transaction.
ExecuteOk ==
  /\ pc = "execute"
  /\ i < Len(posts)
  /\ view' = Upsert(view, posts[i + 1], scraped_at_param)
  /\ inTxn' = TRUE
  /\ i' = i + 1
  /\ UNCHANGED <<pc, conn, opens, tableExists, db, snapshot, html, posts, now_iso,
                 exitCode, fetches, snapReads, fetchResult, stderr, stdout,
                 completed, dbAtStart, upserted, runs>>

\* Mutant of RolledBack: the statements already executed stay in the table.
RolledBackKeepsWrites == view

\* What the with-block leaves in the table when it exits on an exception.
RolledBack == db

\* The statement for the next row raises: the with-block rolls back.
ExecuteFail ==
  /\ pc = "execute"
  /\ i < Len(posts)
  /\ Except
  /\ db' = RolledBack
  /\ stderr' = stderr \cup {"Scrape failed"}
  /\ UNCHANGED <<conn, opens, tableExists, snapshot, html, posts, i, now_iso,
                 fetches, snapReads, fetchResult, stdout, completed,
                 dbAtStart, upserted, runs>>

\* The with-block exits normally: commit.
Commit ==
  /\ pc = "execute"
  /\ i = Len(posts)
  /\ db' = view
  /\ inTxn' = FALSE
  /\ upserted' = upserted \cup {posts[k].id : k \in 1..Len(posts)}
  /\ completed' = completed \cup {"upsert_posts"}
  /\ pc' = "print"
  /\ UNCHANGED <<conn, opens, tableExists, view, snapshot, html, posts, i, now_iso,
                 exitCode, fetches, snapReads, fetchResult, stderr, stdout,
                 dbAtStart, runs>>

\* The commit of an open transaction raises: the with-block rolls back.
CommitFail ==
  /\ pc = "execute"
  /\ i = Len(posts)
  /\ inTxn
  /\ Except
  /\ db' = RolledBack
  /\ stderr' = stderr \cup {"Scrape failed"}
  /\ UNCHANGED <<conn, opens, tableExists, snapshot, html, posts, i, now_iso,
                 fetches, snapReads, fetchResult, stdout, completed,
                 dbAtStart, upserted, runs>>

\* The process is interrupted inside the with-block: nothing was committed,
\* main returns nothing.
Interrupt ==
  /\ pc = "execute"
  /\ inTxn
  /\ pc' = "killed"
  /\ db' = RolledBack
  /\ view' = db
  /\ inTxn' = FALSE
  /\ UNCHANGED <<conn, opens, tableExists, snapshot, html, posts, i, now_iso,
                 exitCode, fetches, snapReads, fetchResult, stderr, stdout,
                 completed, dbAtStart, upserted, runs>>

\* print(...); conn.close(); return 0
Finish ==
  /\ pc = "print"
  /\ stdout' = Some(Len(posts))
  /\ conn' = "closed"
  /\ exitCode' = Some(0)
  /\ pc' = "done"
  /\ UNCHANGED <<opens, tableExists, db, view, inTxn, snapshot, html, posts, i,
                 now_iso, fetches, snapReads, fetchResult, stderr, completed,
                 dbAtStart, upserted, runs>>

\* The program is started again.
StartRun ==
  /\ pc \in {"done", "killed"}
  /\ runs < MaxRuns
  /\ runs' = runs + 1
  /\ pc' = "connect" /\ conn' = "none" /\ opens' = 0
  /\ inTxn' = FALSE /\ html' = <<>> /\ posts' = <<>> /\ i' = 0 /\ now_iso' = None
  /\ exitCode' = None /\ fetches' = 0 /\ snapReads' = 0 /\ fetchResult' = "none"
  /\ stderr' = {} /\ stdout' = None /\ completed' = {}
  /\ dbAtStart' = db
  /\ view' = db
  /\ UNCHANGED <<tableExists, db, snapshot, upserted>>

Next ==
  \/ ConnectOk \/ ConnectFail
  \/ EnsureDbOk \/ EnsureDbFail
  \/ FetchOk \/ FetchFailFallback \/ FetchFailNoSnapshot
  \/ ParseOk \/ ParseRaise
  \/ UpsertBegin \/ ExecuteOk \/ ExecuteFail
  \/ Commit \/ CommitFail \/ Interrupt
  \/ Finish
  \/ StartRun

Spec == Init /\ [][Next]_vars

\* ------------------------------------------------- parse_posts on its own
\* Elements of the documents parse_posts is applied to.
GoodAnchor == Some(Anchor(<<<<"a">>>>, Some(<<"https://example.com/">>)))
GoodId == Some(<<"1">>)

IdRows ==
  {Tr(TRUE, id, GoodAnchor, None, None) :
     id \in {None, Some(<<>>), Some(<<"x">>), Some(<<"1", "x">>), Some(<<"0">>),
             Some(<<"-", "1">>), Some(<<"1">>), Some(<<" ", "2">>)}}

TitleRows ==
  {Tr(TRUE, GoodId, None, None, None),
   Tr(TRUE, GoodId, Some(Anchor(<<>>, None)), None, None),
   Tr(TRUE, GoodId, Some(Anchor(<<<<" ">>>>, Some(<<ItemPrefix, "1">>))), GoodAnchor, None),
   Tr(TRUE, GoodId, None, Some(Anchor(<<<<" ", "b", " ">>, <<"c">>>>, Some(<<ItemPrefix, "1">>))), None),
   Tr(TRUE, GoodId, GoodAnchor, None, Some(Subtext(None, Some(<<<<"7">>>>), None)))}

SubtextRows ==
  {Tr(FALSE, None, None, None, st) :
     st \in {None,
             Some(Subtext(None, None, None)),
             Some(Subtext(Some(<<<<" ", "u">>>>), Some(<<<<"1", ",", "2", " ", "p">>>>),
                          Some(Some("t1")))),
             Some(Subtext(Some(<<>>), Some(<<<<"p">>>>), Some(None))),
             Some(Subtext(None, Some(<<<<"1", "^2">>>>), Some(Some("t2"))))}}

ParseElems == IdRows \cup TitleRows \cup SubtextRows \cup {OtherTag}
ParseDocs == SeqsUpTo(ParseElems, MaxElems)

\* main has connected, created the table and fetched html.
InitParse ==
  /\ pc = "parse" /\ conn = "open" /\ opens = 1
  /\ tableExists = TRUE /\ db = {} /\ view = {} /\ inTxn = FALSE
  /\ snapshot = None
  /\ html \in ParseDocs
  /\ posts = <<>> /\ i = 0 /\ now_iso = None /\ exitCode = None
  /\ fetches = 1 /\ snapReads = 0 /\ fetchResult = "ok"
  /\ stderr = {} /\ stdout = None
  /\ completed = {"connect", "ensure_db", "get_html"}
  /\ dbAtStart = {} /\ upserted = {} /\ runs = 1

NextParse == ParseOk \/ ParseRaise

SpecParse == InitParse /\ [][NextParse]_vars

\* ---------------------------------------------------------------- claims
ReturnCodes == {Some(0), Some(1)}
AllIds == Ids \cup IdsOf(db) \cup IdsOf(view) \cup upserted
Executed == {posts[k].id : k \in 1..i}
RunClock == isoformat(runs * (MaxBatch + 2))

\* C1: after any sequence of batches the table holds exactly one row for each
\* id a committed batch wrote and none for any other id; inside a batch the
\* same holds of the connection's view, counting the ids already executed.
C1_OneRowPerId ==
  \A id \in AllIds :
    /\ Cardinality(RowsOf(db, id)) = (IF id \in upserted THEN 1 ELSE 0)
    /\ Cardinality(RowsOf(view, id)) =
         (IF id \in upserted \/ (pc = "execute" /\ id \in Executed) THEN 1 ELSE 0)

\* A second run committed a batch that holds a stored id twice.
C1_Witness ==
  /\ pc = "print" /\ runs = 2 /\ Len(posts) = 2
  /\ posts[1].id = posts[2].id
  /\ posts[1] # posts[2]
  /\ posts[1].id \in IdsOf(dbAtStart)
  /\ Cardinality(db) = 2

\* C2: a write for a stored id sets time_posted to the record's value when
\* that is non-null and keeps the stored value otherwise; a row that has a
\* non-null time_posted never gets a null one, in the view or in the table.
C2_TimePostedPreserved ==
  [][/\ (pc = "execute" /\ i' = i + 1) =>
          \A old \in RowsOf(view, posts[i + 1].id) :
            \A new \in RowsOf(view', old.id) :
              new.time_posted = (IF posts[i + 1].time_posted # None
                                 THEN posts[i + 1].time_posted
                                 ELSE old.time_posted)
     /\ \A old \in db : old.time_posted # None =>
          \A new \in RowsOf(db', old.id) : new.time_posted # None
     /\ (pc = "execute" /\ pc' = "execute") =>
          \A old \in view : old.time_posted # None =>
            \A new \in RowsOf(view', old.id) : new.time_posted # None]_vars

\* A record with a null time_posted was written over a row stored by an
\* earlier run with a timestamp, and the timestamp is still there.
C2_Witness ==
  /\ pc = "execute" /\ i = 1 /\ runs = 2
  /\ posts[1].time_posted = None
  /\ \E old \in RowsOf(dbAtStart, posts[1].id) :
       /\ old.time_posted # None
       /\ \E new \in RowsOf(view, posts[1].id) : new.time_posted = old.time_posted

\* C3: a write for a stored id replaces title, url, user and points by the
\* record's values and scraped_at by now_iso, the timestamp taken when this
\* call of upsert_posts began; every row written by the call carries it and
\* no row the call did not write does.
C3_OverwriteAndStamp ==
  [][(pc = "execute" /\ i' = i + 1) =>
       /\ now_iso = RunClock
       /\ \A new \in RowsOf(view', posts[i + 1].id) :
            /\ new.title = posts[i + 1].title
            /\ new.url = posts[i + 1].url
            /\ new.user = posts[i + 1].user
            /\ new.points = posts[i + 1].points
            /\ new.scraped_at = now_iso
       /\ \A r \in view' :
            r.scraped_at = now_iso <=> r.id \in {posts[k].id : k \in 1..(i + 1)}]_vars

\* A record with a null user and fewer points was written over a row stored
\* by an earlier run with a user and more points.
C3_Witness ==
  /\ pc = "execute" /\ i = 1 /\ runs = 2
  /\ \E old \in RowsOf(dbAtStart, posts[1].id) :
       /\ old.user # None /\ posts[1].user = None
       /\ posts[1].points < old.points
       /\ old.title # posts[1].title /\ old.url # posts[1].url
       /\ \E new \in RowsOf(view, posts[1].id) :
            new.user = None /\ new.points = posts[1].points

\* C4: until upsert_posts has committed, the table is as it was before the
\* batch began, whether the batch is running, was interrupted or failed;
\* once it has committed, every record of the batch has its row.
C4_BatchAtomic ==
  /\ "upsert_posts" \notin completed => db = dbAtStart
  /\ "upsert_posts" \in completed =>
       \A k \in 1..Len(posts) :
         \E r \in db : r.id = posts[k].id /\ r.scraped_at = now_iso

\* A write failed after one of two records had been executed, over a table
\* that already had a row.
C4_Witness ==
  /\ pc = "done" /\ exitCode = Some(1)
  /\ i = 1 /\ Len(posts) = 2
  /\ dbAtStart # {}
  /\ posts[1].id \notin IdsOf(dbAtStart)

\* C4 (second case): the process was interrupted mid-batch.
C4_WitnessInterrupted ==
  pc = "killed" /\ i = 1 /\ Len(posts) = 2

\* Item rows of a document, the ones with a positive integer id and a
\* non-empty title, and the n-th of a set of positions.
ItemRows(doc) == {k \in 1..Len(doc) : doc[k].name = "tr" /\ doc[k].athing}
HasPositiveId(row) ==
  /\ ~IsNone(row.id)
  /\ ~IsNone(int(Get(row.id)))
  /\ Get(int(Get(row.id))) > 0
ExtractedTitle(row) ==
  IF ~IsNone(row.titleline) THEN get_text_strip(Get(row.titleline).strings)
  ELSE IF ~IsNone(row.storylink) THEN get_text_strip(Get(row.storylink).strings)
  ELSE <<>>
ValidRows(doc) ==
  {k \in ItemRows(doc) : HasPositiveId(doc[k]) /\ ExtractedTitle(doc[k]) # <<>>}
NoSubtext(doc, k) == NextTr(doc, k) = 0 \/ IsNone(doc[NextTr(doc, k)].subtext)
Nth(S, n) == CHOOSE k \in S : Cardinality({j \in S : j <= k}) = n

\* C5: for every input markup, once parse_posts has run, every record has a
\* positive id and a non-empty title, and every item row with a valid id and
\* title but no subtext region has its record, with user null, points 0 and
\* time_posted null.
C5_ValidRowReturned ==
  pc # "parse" =>
    /\ \A n \in 1..Len(posts) : posts[n].id > 0 /\ posts[n].title # <<>>
    /\ \A k \in ValidRows(html) :
         NoSubtext(html, k) =>
           \E n \in 1..Len(posts) :
             /\ Some(posts[n].id) = int(Get(html[k].id))
             /\ posts[n].title = ExtractedTitle(html[k])
             /\ posts[n].user = None
             /\ posts[n].points = 0
             /\ posts[n].time_posted = None

\* C5, for the inputs on which parse_posts returns: every record has a positive id and a
\* non-empty title; the records are, in document order, exactly the item
\* rows with a positive integer id and a non-empty extracted title, so a row
\* whose id is missing, non-numeric, zero or negative or whose title is empty
\* gives no record; a kept row without a subtext region has user null,
\* points 0 and time_posted null.
C5_DiscardRule ==
  (pc = "upsert" /\ "parse_posts" \in completed) =>
    /\ \A n \in 1..Len(posts) : posts[n].id > 0 /\ posts[n].title # <<>>
    /\ Len(posts) = Cardinality(ValidRows(html))
    /\ \A n \in 1..Len(posts) :
         LET k == Nth(ValidRows(html), n)
         IN /\ Some(posts[n].id) = int(Get(html[k].id))
            /\ posts[n].title = ExtractedTitle(html[k])
            /\ NoSubtext(html, k) =>
                 /\ posts[n].user = None
                 /\ posts[n].points = 0
                 /\ posts[n].time_posted = None

\* C5: two rows were kept, one of them without a subtext region, and a row
\* with an id that is not a positive integer was dropped.
C5_Witness ==
  /\ pc = "upsert" /\ Len(posts) = 2
  /\ posts[1].id # posts[2].id
  /\ \E k \in ValidRows(html) : NoSubtext(html, k)
  /\ \E k \in ItemRows(html) : ~HasPositiveId(html[k])

\* C5 (second case): a row with a valid id and an empty title was dropped and
\* a row was kept with the fields of the subtext of a later sibling row.
C5_WitnessTitle ==
  /\ pc = "upsert" /\ Len(posts) = 1
  /\ posts[1].points = 12
  /\ \E k \in ItemRows(html) : HasPositiveId(html[k]) /\ ExtractedTitle(html[k]) = <<>>

\* C6: a run makes one request at most; when the request failed, dummy.html
\* was read exactly once and, if it is there, its text is the markup that
\* get_html returned and the run went on; when the request succeeded,
\* dummy.html was not read.
C6_SingleFallback ==
  /\ fetches <= 1
  /\ fetchResult = "none" => fetches = 0 /\ snapReads = 0
  /\ fetchResult = "ok" => fetches = 1 /\ snapReads = 0
  /\ fetchResult \in FetchErrors =>
       /\ fetches = 1 /\ snapReads = 1
       /\ "Fetch failed" \in stderr
       /\ ~IsNone(snapshot) =>
            /\ "get_html" \in completed
            /\ html = Get(snapshot)
            /\ pc # "get_html"

\* A run whose request failed went through extraction and persistence on the
\* text of dummy.html and returned 0.
C6_Witness ==
  /\ pc = "done" /\ exitCode = Some(0)
  /\ fetchResult \in FetchErrors
  /\ html = SnapshotPage /\ Len(posts) = 1
  /\ posts[1].id \in IdsOf(db)

\* C7: when main has returned, the exit code is 0 or 1, it is 0 exactly when
\* all five steps completed, and when the fetch failed with dummy.html
\* missing it is 1 and the table is as it was when the run began.
C7_ExitCode ==
  pc = "done" =>
    /\ exitCode \in ReturnCodes
    /\ exitCode = Some(0) <=> completed = Steps
    /\ (fetchResult \in FetchErrors /\ IsNone(snapshot)) =>
         /\ exitCode = Some(1)
         /\ db = dbAtStart
         /\ view = dbAtStart

\* A run over a table with rows returned 1 because the fetch failed and
\* dummy.html is missing.
C7_Witness ==
  /\ pc = "done" /\ exitCode = Some(1)
  /\ fetchResult \in FetchErrors /\ IsNone(snapshot)
  /\ dbAtStart # {}

\* C7 (second case): a run returned 1 because persistence failed.
C7_WitnessPersistence ==
  /\ pc = "done" /\ exitCode = Some(1)
  /\ completed = Steps \ {"upsert_posts"}

\* C8: once extraction has returned no posts, the warning is written, the
\* run is never aborted or interrupted, the table stays as it was when the
\* run began, and the run ends with the summary of 0 posts and exit code 0
\* after the persistence step.
C8_ZeroPosts ==
  ("parse_posts" \in completed /\ posts = <<>>) =>
    /\ "No posts parsed" \in stderr
    /\ "Scrape failed" \notin stderr
    /\ pc \in {"upsert", "execute", "print", "done"}
    /\ db = dbAtStart /\ view = dbAtStart
    /\ pc \in {"print", "done"} => "upsert_posts" \in completed
    /\ pc = "done" => exitCode = Some(0) /\ stdout = Some(0)

\* A run over a table with rows extracted nothing and returned 0.
C8_Witness ==
  /\ pc = "done" /\ "parse_posts" \in completed /\ posts = <<>>
  /\ exitCode = Some(0) /\ stdout = Some(0)
  /\ dbAtStart # {} /\ db = dbAtStart

\* C9: no step of any run removes a stored id from the table, and every id
\* a committed batch wrote is stored.
C9_NeverDeleted ==
  [][/\ IdsOf(db) \subseteq IdsOf(db')
     /\ upserted' \subseteq IdsOf(db')]_vars

\* A later run that failed, and so observed nothing, left a stored id.
C9_Witness ==
  /\ runs = 2 /\ pc = "done" /\ exitCode = Some(1)
  /\ db # {}

\* C9 (second case): a later run committed a batch without a stored id.
C9_WitnessNotObserved ==
  /\ runs = 2 /\ pc = "done" /\ exitCode = Some(0) /\ Len(posts) > 0
  /\ \E id \in IdsOf(db) : \A k \in 1..Len(posts) : posts[k].id # id

\* C10: when main has returned, the connection was opened at most once and
\* is not open.
C10_ConnectionClosed ==
  pc = "done" => opens <= 1 /\ conn # "open"

====
